---- MODULE Spec2Model ----
(***************************************************************************)
(* A model of the noisy-channel simulator: the Huffman codec (huffman.py), *)
(* the bit packing / PKCS#7 block padder and the channel simulator         *)
(* (utils.py), the systematic linear block code (linear.py) and the two    *)
(* transport handlers that compose them (client.py, server.py).            *)
(*                                                                         *)
(* Conventions.  A Python bit string is a sequence over {0,1}; a bytes     *)
(* object is a sequence over 0..255.  An Optional value is a sequence of   *)
(* length 0 (None) or 1 (the value).  A dict whose iteration order matters *)
(* (the frequency map) is the sequence of its <<key, value>> items in      *)
(* insertion order; a dict used only for lookup (code map, syndrome table) *)
(* is a function.  A call that raises is a record whose err field names    *)
(* the exception.                                                          *)
(***************************************************************************)
EXTENDS Integers, Sequences, FiniteSets, TLC

VARIABLES
  huff,   \* a HuffmanCodec instance: data, frequency_map, root, code_map
  hret,   \* the last call on huff and what it returned
  test,   \* the record of one iteration of the Huffman test suite
  tbl,    \* a frequency table and a bit sequence handed to a fresh HuffmanCodec
  padv,   \* a padding round trip: its arguments and what pad and unpad returned
  code,   \* the sender's LinearCodec: the constructor's arguments, then its result
  rx,     \* the receiver's LinearCodec, built by from_parameters
  word,   \* one block in transit: message, codeword, received word, decoded results
  chan,   \* a call of inject_bit_errors: its arguments and its outcome
  client, \* a run of the client's process_and_send: its arguments, then its outcome
  server  \* a request to the server's process_request, then its response

hvars == <<huff, hret>>
tvars == <<test>>
fvars == <<tbl>>
pvars == <<padv>>
lvars == <<code, rx, word>>
cvars == <<chan>>
nvars == <<client, server>>
vars == <<huff, hret, test, tbl, padv, code, rx, word, chan, client, server>>

-----------------------------------------------------------------------------
(* Bounds of the model                                                     *)

\* byte values 65 .. 65+NumSymbols-1 are the alphabet of the byte buffers
NumSymbols == 3
\* longest byte buffer handed to the Huffman round-trip test
MaxBytes == 4
\* longest byte buffer handed to a reused HuffmanCodec instance
MaxReuseBytes == 2
\* byte values 65 .. 65+NumReuseSymbols-1 are handed to a reused instance
NumReuseSymbols == 2
\* longest bit sequence handed to the block padder
MaxPadBits == 9
\* block sizes of 1 .. MaxBlockBytes bytes are handed to the block padder
MaxBlockBytes == 2
\* byte values 65 .. 65+NumTableSymbols-1 are the symbols of the frequency tables
NumTableSymbols == 3
\* the counts of the frequency tables range over 1 .. MaxFreq
MaxFreq == 2
\* longest bit sequence handed to decompress with a frequency table
MaxTableBits == 3
\* longest byte sequence handed to the unpadder
MaxUnpadBytes == 2
\* codeword lengths n and message lengths k range over 1 .. MaxN
MaxN == 7
\* the channel flips at most MaxFlips bits of a block
MaxFlips == 3
\* longest bit sequence handed to the channel simulator
MaxChanBits == 4
\* error percentages range over -MaxOver .. 100 + MaxOver
MaxOver == 30
\* the requests to the server use message blocks of PipeBlockBytes bytes
PipeBlockBytes == 1
\* and PipeParity parity bits a block
PipeParity == 4

FirstSymbol == 65

Alphabet == FirstSymbol .. (FirstSymbol + NumSymbols - 1)

SeqsUpTo(S, m) == UNION {[1..l -> S] : l \in 0..m}

Buffers == SeqsUpTo(Alphabet, MaxBytes)

ReuseBuffers == SeqsUpTo(FirstSymbol .. (FirstSymbol + NumReuseSymbols - 1), MaxReuseBytes)

None == <<>>

Some(x) == <<x>>

\* Op applied to the value of v, which is evaluated once
Bind(v, Op(_)) == CHOOSE r \in {Op(x) : x \in {v}} : TRUE

-----------------------------------------------------------------------------
(* huffman.py                                                              *)

\* HuffmanNode(symbol, frequency): left and right start as None
HuffmanNode(symbol, frequency) ==
  [symbol |-> symbol, frequency |-> frequency, left |-> None, right |-> None]

\* HuffmanNode.__lt__
NodeLt(a, b) == a.frequency < b.frequency

\* heapq._siftdown(heap, startpos, pos), positions 0-based as in Python
RECURSIVE SiftDownLoop(_, _, _, _)
SiftDownLoop(heap, startpos, pos, newitem) ==
  IF pos > startpos
  THEN LET parentpos == (pos - 1) \div 2
           parent == heap[parentpos + 1]
       IN IF NodeLt(newitem, parent)
          THEN SiftDownLoop([heap EXCEPT ![pos + 1] = parent], startpos, parentpos, newitem)
          ELSE [heap EXCEPT ![pos + 1] = newitem]
  ELSE [heap EXCEPT ![pos + 1] = newitem]

siftdown(heap, startpos, pos) == SiftDownLoop(heap, startpos, pos, heap[pos + 1])

\* heapq._siftup(heap, pos): bubble the smaller child up to a leaf, then sift down
RECURSIVE SiftUpLoop(_, _, _, _)
SiftUpLoop(heap, startpos, pos, newitem) ==
  LET endpos == Len(heap)
      childpos == 2 * pos + 1
  IN IF childpos < endpos
     THEN LET rightpos == childpos + 1
              c == IF rightpos < endpos /\ ~NodeLt(heap[childpos + 1], heap[rightpos + 1])
                   THEN rightpos ELSE childpos
          IN SiftUpLoop([heap EXCEPT ![pos + 1] = heap[c + 1]], startpos, c, newitem)
     ELSE siftdown([heap EXCEPT ![pos + 1] = newitem], startpos, pos)

siftup(heap, pos) == SiftUpLoop(heap, pos, pos, heap[pos + 1])

\* heapq.heapify(x): for i in reversed(range(n // 2)): _siftup(x, i)
RECURSIVE HeapifyLoop(_, _)
HeapifyLoop(heap, i) ==
  IF i < 0 THEN heap ELSE HeapifyLoop(siftup(heap, i), i - 1)

heapify(x) == HeapifyLoop(x, (Len(x) \div 2) - 1)

\* heapq.heappop(heap): the smallest item and the heap left
heappop(heap) ==
  LET lastelt == heap[Len(heap)]
      rest == SubSeq(heap, 1, Len(heap) - 1)
  IN IF rest # <<>>
     THEN [item |-> rest[1], heap |-> siftup([rest EXCEPT ![1] = lastelt], 0)]
     ELSE [item |-> lastelt, heap |-> rest]

\* heapq.heappush(heap, item)
heappush(heap, item) == siftdown(Append(heap, item), 0, Len(heap))

\* the while loop of _build_tree: merge the two smallest until one root is left
RECURSIVE MergeLoop(_)
MergeLoop(queue) ==
  IF Len(queue) > 1
  THEN LET p1 == heappop(queue)
           p2 == heappop(p1.heap)
           merged == [symbol |-> None,
                      frequency |-> p1.item.frequency + p2.item.frequency,
                      left |-> Some(p1.item), right |-> Some(p2.item)]
       IN MergeLoop(heappush(p2.heap, merged))
  ELSE queue[1]

\* HuffmanCodec._build_tree(freq_map): Optional[HuffmanNode]
build_tree(freq_map) ==
  IF freq_map = <<>> THEN None
  ELSE LET queue == heapify([i \in 1..Len(freq_map) |->
                               HuffmanNode(Some(freq_map[i][1]), freq_map[i][2])])
       IN IF Len(queue) = 1
          THEN LET only_node == heappop(queue).item
               IN Some([symbol |-> None, frequency |-> only_node.frequency,
                        left |-> Some(only_node), right |-> None])
          ELSE Some(MergeLoop(queue))

\* _generate_codes that extends the prefix by "0" on the way to either child
RECURSIVE generate_codes_SameBit(_, _, _)
generate_codes_SameBit(node, prefix, code_map) ==
  IF node = None THEN code_map
  ELSE IF node[1].symbol # None
       THEN (node[1].symbol[1] :> (IF prefix # <<>> THEN prefix ELSE <<0>>)) @@ code_map
       ELSE LET afterLeft == IF node[1].left # None
                             THEN generate_codes_SameBit(node[1].left, Append(prefix, 0), code_map)
                             ELSE code_map
            IN IF node[1].right # None
               THEN generate_codes_SameBit(node[1].right, Append(prefix, 0), afterLeft)
               ELSE afterLeft

\* HuffmanCodec._generate_codes(node, prefix, code_map): the dict symbol -> code
RECURSIVE generate_codes(_, _, _)
generate_codes(node, prefix, code_map) ==
  IF node = None THEN code_map
  ELSE IF node[1].symbol # None
       THEN (node[1].symbol[1] :> (IF prefix # <<>> THEN prefix ELSE <<0>>)) @@ code_map
       ELSE LET afterLeft == IF node[1].left # None
                             THEN generate_codes(node[1].left, Append(prefix, 0), code_map)
                             ELSE code_map
            IN IF node[1].right # None
               THEN generate_codes(node[1].right, Append(prefix, 1), afterLeft)
               ELSE afterLeft

\* dict(collections.Counter(data)) of the first i bytes: items in order of
\* first occurrence
RECURSIVE CounterLoop(_, _)
CounterLoop(data, i) ==
  IF i = 0 THEN <<>>
  ELSE Bind(CounterLoop(data, i - 1), LAMBDA counts :
         IF \E j \in 1..Len(counts) : counts[j][1] = data[i]
         THEN [j \in 1..Len(counts) |->
                 IF counts[j][1] = data[i] THEN <<data[i], counts[j][2] + 1>> ELSE counts[j]]
         ELSE Append(counts, <<data[i], 1>>))

Counter(data) == CounterLoop(data, Len(data))

\* HuffmanCodec.__init__(data=None)
NewHuffmanCodec ==
  [data |-> <<>>, frequency_map |-> <<>>, root |-> None, code_map |-> <<>>]

\* HuffmanCodec.build
build(self) ==
  Bind(Counter(self.data), LAMBDA fm :
    Bind(build_tree(fm), LAMBDA root :
      [self EXCEPT !.frequency_map = fm, !.root = root,
                   !.code_map = generate_codes(root, <<>>, <<>>)]))

\* ''.join(self.code_map[b] for b in self.data) over the first i bytes
RECURSIVE JoinCodes(_, _, _)
JoinCodes(code_map, data, i) ==
  IF i = 0 THEN <<>> ELSE JoinCodes(code_map, data, i - 1) \o code_map[data[i]]

\* HuffmanCodec.compress(data): the instance afterwards, and what the call returns
compress(self, data) ==
  IF data = <<>>
  THEN [self |-> self, err |-> "none", bits |-> <<>>, freq |-> <<>>]
  ELSE Bind(IF DOMAIN self.code_map = {}
            THEN build([self EXCEPT !.data = data])
            ELSE [self EXCEPT !.data = data], LAMBDA s2 :
         IF \E i \in 1..Len(data) : data[i] \notin DOMAIN s2.code_map
         THEN [self |-> s2, err |-> "KeyError", bits |-> <<>>, freq |-> <<>>]
         ELSE [self |-> s2, err |-> "none",
               bits |-> JoinCodes(s2.code_map, data, Len(data)),
               freq |-> s2.frequency_map])

\* DecodeStep with the branches exchanged: bit 0 goes right, bit 1 goes left
DecodeStep_Swapped(root, st, bit) ==
  IF st.err # "none" THEN st
  ELSE LET nxt == IF bit = 0 THEN st.node.right ELSE st.node.left
       IN IF nxt = None
          THEN [err |-> "AttributeError", node |-> st.node, bytes |-> <<>>]
          ELSE IF nxt[1].symbol # None
               THEN [err |-> "none", node |-> root,
                     bytes |-> Append(st.bytes, nxt[1].symbol[1])]
               ELSE [err |-> "none", node |-> nxt[1], bytes |-> st.bytes]

\* one pass of the for loop of decompress: a step down the tree, and back to
\* the root at a leaf
DecodeStep(root, st, bit) ==
  IF st.err # "none" THEN st
  ELSE LET nxt == IF bit = 0 THEN st.node.left ELSE st.node.right
       IN IF nxt = None
          THEN [err |-> "AttributeError", node |-> st.node, bytes |-> <<>>]
          ELSE IF nxt[1].symbol # None
               THEN [err |-> "none", node |-> root,
                     bytes |-> Append(st.bytes, nxt[1].symbol[1])]
               ELSE [err |-> "none", node |-> nxt[1], bytes |-> st.bytes]

\* the for loop of decompress over the first i bits
RECURSIVE DecodeLoop(_, _, _)
DecodeLoop(root, bit_string, i) ==
  IF i = 0 THEN [err |-> "none", node |-> root, bytes |-> <<>>]
  ELSE Bind(DecodeLoop(root, bit_string, i - 1), LAMBDA st :
         DecodeStep(root, st, bit_string[i]))

\* HuffmanCodec.decompress(bit_string, frequency_map): frequency_map is Optional
decompress(self, bit_string, frequency_map) ==
  LET s1 == IF frequency_map # None
            THEN [self EXCEPT !.frequency_map = frequency_map[1]] ELSE self
  IN IF s1.frequency_map = <<>>
     THEN [self |-> s1, err |-> "none", bytes |-> <<>>]
     ELSE Bind(IF s1.root = None \/ frequency_map # None
               THEN [s1 EXCEPT !.root = build_tree(s1.frequency_map)] ELSE s1, LAMBDA s2 :
            Bind(DecodeLoop(s2.root[1], bit_string, Len(bit_string)), LAMBDA r :
              [self |-> s2, err |-> r.err, bytes |-> r.bytes]))

-----------------------------------------------------------------------------
(* utils.py: bit packing and the PKCS#7 block padder                       *)

Bits == {0, 1}

\* int(s, 2) of an 8-character bit string
ByteValue(s) ==
  s[1] * 128 + s[2] * 64 + s[3] * 32 + s[4] * 16 + s[5] * 8 + s[6] * 4 + s[7] * 2 + s[8]

\* bit_string_to_bytes that fills up with zeros in front of the bits, not behind
bit_string_to_bytes_LeadingZeros(bit_str) ==
  IF bit_str = <<>> THEN <<>>
  ELSE LET padded_bit_str == [i \in 1..((8 - (Len(bit_str) % 8)) % 8) |-> 0] \o bit_str
       IN [j \in 1..(Len(padded_bit_str) \div 8) |->
             ByteValue(SubSeq(padded_bit_str, 8 * (j - 1) + 1, 8 * j))]

\* bit_string_to_bytes(bit_str): zero-filled to a byte boundary, big-endian
bit_string_to_bytes(bit_str) ==
  IF bit_str = <<>> THEN <<>>
  ELSE LET padded_bit_str == bit_str \o [i \in 1..((8 - (Len(bit_str) % 8)) % 8) |-> 0]
       IN [j \in 1..(Len(padded_bit_str) \div 8) |->
             ByteValue(SubSeq(padded_bit_str, 8 * (j - 1) + 1, 8 * j))]

\* bytes_to_bit_string(byte_data): format(byte, '08b') of every byte, joined
bytes_to_bit_string(byte_data) ==
  [i \in 1..(8 * Len(byte_data)) |->
     (byte_data[((i - 1) \div 8) + 1] \div (2 ^ (7 - ((i - 1) % 8)))) % 2]

Raise(exc, msg) == [err |-> exc, msg |-> msg, val |-> <<>>]

Return(val) == [err |-> "none", msg |-> "", val |-> val]

\* the largest block size in bytes pkcs7_pad_bytes accepts
MaxPkcs7BlockBytes == 255

\* pkcs7_pad_bytes that appends nothing to data that is already aligned
pkcs7_pad_bytes_NoFullBlock(data, block_size_bytes) ==
  IF block_size_bytes < 1 \/ block_size_bytes > MaxPkcs7BlockBytes
  THEN Raise("ValueError", "block size must be between 1 and 255")
  ELSE LET padding_len == (block_size_bytes - (Len(data) % block_size_bytes)) % block_size_bytes
       IN Return(data \o [i \in 1..padding_len |-> padding_len])

\* pkcs7_pad_bytes(data, block_size_bytes)
pkcs7_pad_bytes(data, block_size_bytes) ==
  IF block_size_bytes < 1 \/ block_size_bytes > MaxPkcs7BlockBytes
  THEN Raise("ValueError", "block size must be between 1 and 255")
  ELSE LET padding_len == block_size_bytes - (Len(data) % block_size_bytes)
       IN Return(data \o [i \in 1..padding_len |-> padding_len])

\* pkcs7_unpad_bytes without the comparison of the pad length with len(data):
\* data[:-padding_len] of a shorter data is empty
pkcs7_unpad_bytes_NoLengthCheck(data, block_size_bytes) ==
  IF data = <<>> THEN Raise("ValueError", "cannot unpad empty data")
  ELSE LET padding_len == data[Len(data)]
       IN IF padding_len = 0 \/ padding_len > block_size_bytes
          THEN Raise("ValueError", "invalid padding value")
          ELSE IF padding_len > Len(data)
               THEN Return(<<>>)
               ELSE Return(SubSeq(data, 1, Len(data) - padding_len))

\* pkcs7_unpad_bytes(data, block_size_bytes)
pkcs7_unpad_bytes(data, block_size_bytes) ==
  IF data = <<>> THEN Raise("ValueError", "cannot unpad empty data")
  ELSE LET padding_len == data[Len(data)]
       IN IF padding_len = 0 \/ padding_len > block_size_bytes
          THEN Raise("ValueError", "invalid padding value")
          ELSE IF padding_len > Len(data)
               THEN Raise("ValueError", "padding length exceeds data length")
               ELSE Return(SubSeq(data, 1, Len(data) - padding_len))

\* pkcs7_pad_bit_string(bit_str, block_size_bits)
pkcs7_pad_bit_string(bit_str, block_size_bits) ==
  IF block_size_bits <= 0 \/ block_size_bits % 8 # 0
  THEN Raise("ValueError", "block size must be a positive multiple of 8")
  ELSE LET current_bytes == bit_string_to_bytes(bit_str)
           target_byte_block_size == block_size_bits \div 8
           padded == pkcs7_pad_bytes(current_bytes, target_byte_block_size)
       IN IF padded.err # "none" THEN padded
          ELSE Return(bytes_to_bit_string(padded.val))

\* pkcs7_unpad_bit_string(padded_bit_str, target_unpad_block_size_bits,
\* original_significant_bit_length): the last argument is Optional
pkcs7_unpad_bit_string(padded_bit_str, target_unpad_block_size_bits, original_significant_bit_length) ==
  IF Len(padded_bit_str) % 8 # 0
  THEN Raise("ValueError", "input length must be a multiple of 8")
  ELSE IF target_unpad_block_size_bits <= 0 \/ target_unpad_block_size_bits % 8 # 0
  THEN Raise("ValueError", "block size must be a positive multiple of 8")
  ELSE LET current_bytes == bit_string_to_bytes(padded_bit_str)
           byte_block_to_unpad_against == target_unpad_block_size_bits \div 8
           unpadded_bytes == pkcs7_unpad_bytes(current_bytes, byte_block_to_unpad_against)
       IN IF unpadded_bytes.err # "none" THEN unpadded_bytes
          ELSE LET unpadded_bit_str_from_bytes == bytes_to_bit_string(unpadded_bytes.val)
               IN IF original_significant_bit_length # None
                  THEN IF Len(unpadded_bit_str_from_bytes) < original_significant_bit_length[1]
                       THEN Raise("ValueError", "unpadded bit string shorter than original length")
                       ELSE Return(SubSeq(unpadded_bit_str_from_bytes, 1,
                                          original_significant_bit_length[1]))
                  ELSE Return(unpadded_bit_str_from_bytes)

-----------------------------------------------------------------------------
(* utils.py: the channel simulator                                         *)

\* the (0-based) positions in which two bit sequences of one length differ
DiffPositions(a, b) == {i \in 0..(Len(a) - 1) : a[i + 1] # b[i + 1]}

\* int(x / 100.0) for an integer x: truncation towards zero
TruncDiv100(x) == IF x >= 0 THEN x \div 100 ELSE -((-x) \div 100)

\* the bit string with the bits at the (0-based) positions of error_indices flipped
FlipAll(bit_str, error_indices) ==
  [i \in 1..Len(bit_str) |->
     IF (i - 1) \in error_indices THEN (IF bit_str[i] = 0 THEN 1 ELSE 0) ELSE bit_str[i]]

\* inject_bit_errors without the rounding of a zero count up to one error
inject_bit_errors_NoMinimum(bit_str, error_percentage) ==
  IF error_percentage = 0 THEN {[err |-> "none", bits |-> bit_str, count |-> 0]}
  ELSE LET total_bits == Len(bit_str)
           n0 == TruncDiv100(total_bits * error_percentage)
           num_errors == IF n0 > total_bits THEN total_bits ELSE n0
       IN IF num_errors < 0
          THEN {[err |-> "ValueError", bits |-> <<>>, count |-> 0]}
          ELSE {[err |-> "none", bits |-> FlipAll(bit_str, error_indices),
                 count |-> num_errors] :
                   error_indices \in {x \in SUBSET (0..(total_bits - 1)) :
                                         Cardinality(x) = num_errors}}

\* inject_bit_errors(bit_str, error_percentage): the set of the outcomes the call
\* can have, one for every sample random.sample can draw
inject_bit_errors(bit_str, error_percentage) ==
  IF error_percentage = 0 THEN {[err |-> "none", bits |-> bit_str, count |-> 0]}
  ELSE LET total_bits == Len(bit_str)
           n0 == TruncDiv100(total_bits * error_percentage)
           n1 == IF n0 = 0 /\ error_percentage > 0 /\ total_bits > 0 THEN 1 ELSE n0
           num_errors == IF n1 > total_bits THEN total_bits ELSE n1
       IN IF num_errors < 0
          THEN {[err |-> "ValueError", bits |-> <<>>, count |-> 0]}
          ELSE {[err |-> "none", bits |-> FlipAll(bit_str, error_indices),
                 count |-> num_errors] :
                   error_indices \in {x \in SUBSET (0..(total_bits - 1)) :
                                         Cardinality(x) = num_errors}}

-----------------------------------------------------------------------------
(* linear.py                                                               *)

\* sum of a[i] * b[i] in uint8 arithmetic (numpy's dtype of every matrix here)
RECURSIVE DotLoop(_, _, _)
DotLoop(a, b, i) ==
  IF i = 0 THEN 0 ELSE (DotLoop(a, b, i - 1) + a[i] * b[i]) % 256

Dot(a, b) == DotLoop(a, b, Len(a))

\* column j (1-based) of a matrix given as the sequence of its rows
Column(M, j) == [r \in 1..Len(M) |-> M[r][j]]

\* np.identity(m): the sequence of its rows
Identity(m) == [r \in 1..m |-> [c \in 1..m |-> IF r = c THEN 1 ELSE 0]]

\* the p binary digits of i, least significant first
FormatBits_LeastFirst(i, p) == [j \in 1..p |-> (i \div (2 ^ (j - 1))) % 2]

\* [int(bit) for bit in format(i, '0{p}b')]: p binary digits, most significant first
FormatBits(i, p) == [j \in 1..p |-> (i \div (2 ^ (p - j))) % 2]

\* any that looks at the first entry only
any_FirstOnly(v) == Len(v) >= 1 /\ v[1] # 0

\* any(v)
any(v) == \E i \in 1..Len(v) : v[i] # 0

\* the for loop of _generate_P_matrix_columns
RECURSIVE PColsLoop(_, _, _, _)
PColsLoop(i, p, k, P_cols) ==
  IF i >= 2 ^ p THEN P_cols
  ELSE LET col == FormatBits(i, p)
           id_cols == {Column(Identity(p), c) : c \in 1..p}
       IN IF col \notin id_cols
          THEN IF Len(P_cols) + 1 = k
               THEN Append(P_cols, col)
               ELSE PColsLoop(i + 1, p, k, Append(P_cols, col))
          ELSE PColsLoop(i + 1, p, k, P_cols)

\* LinearCodec._generate_P_matrix_columns
generate_P_matrix_columns(p, k) == PColsLoop(1, p, k, <<>>)

\* the for loop of _build_syndrome_table: the first position of a syndrome wins
RECURSIVE SyndromeLoop(_, _, _, _)
SyndromeLoop(H, n, pos, table) ==
  IF pos >= n THEN table
  ELSE LET error == [j \in 1..n |-> IF j = pos + 1 THEN 1 ELSE 0]
           syndrome == [r \in 1..Len(H) |-> Dot(H[r], error) % 2]
       IN SyndromeLoop(H, n, pos + 1,
                       IF any(syndrome) /\ syndrome \notin DOMAIN table
                       THEN (syndrome :> pos) @@ table ELSE table)

\* _build_syndrome_table that tries the k message positions only
build_syndrome_table_MessageOnly(self) ==
  IF self.H_matrix = None
  THEN [err |-> "none", msg |-> "", self |-> [self EXCEPT !.syndrome_table = <<>>]]
  ELSE [err |-> "none", msg |-> "",
        self |-> [self EXCEPT !.syndrome_table =
                    SyndromeLoop([r \in 1..Len(self.H_matrix[1]) |->
                                    SubSeq(self.H_matrix[1][r], 1, self.k)],
                                 self.k, 0, <<>>)]]

\* LinearCodec._build_syndrome_table: the table is cleared and rebuilt from H;
\* H @ error needs every row of H to have n entries
build_syndrome_table(self) ==
  IF self.H_matrix = None
  THEN [err |-> "none", msg |-> "", self |-> [self EXCEPT !.syndrome_table = <<>>]]
  ELSE LET H == self.H_matrix[1]
       IN IF \E r \in 1..Len(H) : Len(H[r]) # self.n
          THEN [err |-> "ValueError", msg |-> "matmul: H has not n columns",
                self |-> [self EXCEPT !.syndrome_table = <<>>]]
          ELSE [err |-> "none", msg |-> "",
                self |-> [self EXCEPT !.syndrome_table = SyndromeLoop(H, self.n, 0, <<>>)]]

\* LinearCodec._initialize_matrices: np.hstack raises unless its blocks have the
\* same number of dimensions and of rows, np.identity unless k >= 0
initialize_matrices(self) ==
  LET p == self.parity_bits
      k == self.k
      P_cols == generate_P_matrix_columns(p, k)
      m == Len(P_cols)
      I_p == Identity(p)
  IN IF m = 0
     THEN [err |-> "ValueError", msg |-> "hstack: P has no columns", self |-> self]
     ELSE LET H == [r \in 1..p |-> [c \in 1..m |-> P_cols[c][r]] \o I_p[r]]
          IN IF k < 0
             THEN [err |-> "ValueError", msg |-> "identity: negative dimension", self |-> self]
             ELSE IF k # m
             THEN [err |-> "ValueError", msg |-> "hstack: I_k and P^T differ in rows",
                   self |-> self]
             ELSE LET G == [r \in 1..k |-> Identity(k)[r] \o P_cols[r]]
                  IN build_syndrome_table([self EXCEPT !.H_matrix = Some(H),
                                                       !.G_matrix = Some(G)])

\* LinearCodec.__init__(n, k)
LinearCodec(n, k) ==
  IF k >= n
  THEN [err |-> "ValueError", msg |-> "k must be less than n", self |-> None]
  ELSE LET r == initialize_matrices([n |-> n, k |-> k, parity_bits |-> n - k,
                                     G_matrix |-> None, H_matrix |-> None,
                                     syndrome_table |-> <<>>])
       IN IF r.err # "none" THEN [err |-> r.err, msg |-> r.msg, self |-> None]
          ELSE [err |-> "none", msg |-> "", self |-> Some(r.self)]

\* encode that copies the message and leaves the parity bits zero
encode_NoParity(self, message) ==
  IF self.G_matrix = None THEN Raise("RuntimeError", "generator matrix not initialized")
  ELSE IF Len(message) # self.k THEN Raise("ValueError", "message must be k bits")
  ELSE Return([j \in 1..self.n |-> IF j <= self.k THEN message[j] ELSE 0])

\* LinearCodec.encode(message)
encode(self, message) ==
  IF self.G_matrix = None THEN Raise("RuntimeError", "generator matrix not initialized")
  ELSE IF Len(message) # self.k THEN Raise("ValueError", "message must be k bits")
  ELSE LET G == self.G_matrix[1]
       IN Return([j \in 1..self.n |-> Dot(message, Column(G, j)) % 2])

\* decode that reports a syndrome found in the table but flips nothing
decode_DetectOnly(self, received) ==
  IF self.H_matrix = None THEN Raise("RuntimeError", "parity check matrix not initialized")
  ELSE IF Len(received) # self.n THEN Raise("ValueError", "received word must be n bits")
  ELSE Return(<<SubSeq(received, 1, self.k), 0>>)

\* LinearCodec.decode(received): val is <<message, errors_corrected>>
decode(self, received) ==
  IF self.H_matrix = None THEN Raise("RuntimeError", "parity check matrix not initialized")
  ELSE IF Len(received) # self.n THEN Raise("ValueError", "received word must be n bits")
  ELSE LET H == self.H_matrix[1]
           syndrome == [r \in 1..Len(H) |-> Dot(received, H[r]) % 2]
           hit == any(syndrome) /\ syndrome \in DOMAIN self.syndrome_table
           error_pos == self.syndrome_table[syndrome]
           corrected_vector ==
             IF hit
             THEN [received EXCEPT ![error_pos + 1] = IF received[error_pos + 1] = 0 THEN 1 ELSE 0]
             ELSE received
       IN Return(<<SubSeq(corrected_vector, 1, self.k), IF hit THEN 1 ELSE 0>>)

\* LinearCodec.get_parameters: the wire form (n, k, dense H)
get_parameters(self) ==
  LET s == IF self.H_matrix = None THEN initialize_matrices(self).self ELSE self
  IN [n |-> s.n, k |-> s.k, H_matrix_list |-> s.H_matrix[1]]

\* from_parameters that clears the syndrome table and never rebuilds it
from_parameters_EmptyTable(params) ==
  LET c == LinearCodec(params.n, params.k)
  IN IF c.err # "none" THEN c
     ELSE [err |-> "none", msg |-> "",
           self |-> Some([c.self[1] EXCEPT !.H_matrix = Some(params.H_matrix_list),
                                           !.G_matrix = None,
                                           !.syndrome_table = <<>>])]

\* LinearCodec.from_parameters(params): a codec of (n, k) whose H is the
\* transmitted one, whose G is dropped and whose table is rebuilt from that H
from_parameters(params) ==
  LET c == LinearCodec(params.n, params.k)
  IN IF c.err # "none" THEN c
     ELSE LET r == build_syndrome_table([c.self[1] EXCEPT
                                           !.H_matrix = Some(params.H_matrix_list),
                                           !.G_matrix = None])
          IN IF r.err # "none" THEN [err |-> r.err, msg |-> r.msg, self |-> None]
             ELSE [err |-> "none", msg |-> "", self |-> Some(r.self)]

-----------------------------------------------------------------------------
(* tests.py: one iteration of run_huffman_codec_tests                      *)

NoTest == [ran |-> FALSE, data |-> <<>>]

TestInputs == {[ran |-> FALSE, data |-> B] : B \in Buffers}

\* the body of the for loop: a fresh codec compresses, the compression checks
\* run, a fresh decoder decompresses with the returned table, the result is
\* compared with the original
run_huffman_codec_test(original_data_bytes) ==
  Bind(compress(NewHuffmanCodec, original_data_bytes), LAMBDA c :
    LET base == [ran |-> TRUE, data |-> original_data_bytes, err |-> c.err,
                 bits |-> c.bits, freq |-> c.freq, out |-> <<>>,
                 decoded |-> FALSE, passed |-> FALSE]
    IN IF c.err # "none" THEN base
       ELSE IF Len(original_data_bytes) = 0 /\ ~(c.bits = <<>> /\ c.freq = <<>>) THEN base
       ELSE IF Len(original_data_bytes) # 0 /\ c.freq = <<>> THEN base
       ELSE Bind(decompress(NewHuffmanCodec, c.bits, Some(c.freq)), LAMBDA d :
              [base EXCEPT !.err = d.err, !.out = d.bytes, !.decoded = (d.err = "none"),
                           !.passed = (d.err = "none" /\ d.bytes = original_data_bytes)]))

RunTest ==
  /\ ~test.ran
  /\ test' = run_huffman_codec_test(test.data)
  /\ UNCHANGED <<fvars, hvars, pvars, lvars, cvars, nvars>>

-----------------------------------------------------------------------------
(* One HuffmanCodec instance that is called again and again                *)

NoCall == [op |-> "none"]

\* codec.compress(B)
Compress(B) ==
  \E r \in {compress(huff, B)} :
     /\ huff' = r.self
     /\ hret' = [op |-> "compress", data |-> B, err |-> r.err,
                 bits |-> r.bits, freq |-> r.freq]
     /\ UNCHANGED <<fvars, tvars, pvars, lvars, cvars, nvars>>

\* what a sender transmits for B: the return value of a fresh codec's compress
Transmitted(B) == compress(NewHuffmanCodec, B)

\* codec.decompress(bit_string, frequency_map) on what a sender transmitted for B;
\* withTable = FALSE leaves the frequency_map argument out (None)
Decompress(B, withTable) ==
  \E t \in {Transmitted(B)} :
  \E r \in {decompress(huff, t.bits, IF withTable THEN Some(t.freq) ELSE None)} :
     /\ huff' = r.self
     /\ hret' = [op |-> "decompress", data |-> B, withTable |-> withTable,
                 err |-> r.err, bytes |-> r.bytes]
     /\ UNCHANGED <<fvars, tvars, pvars, lvars, cvars, nvars>>

-----------------------------------------------------------------------------
(* A frequency table, as a receiver gets it, handed to a fresh HuffmanCodec *)

\* the non-empty frequency tables: distinct symbols in any order, counts >= 1
FrequencyTables ==
  {fm \in UNION {[1..l -> (FirstSymbol .. (FirstSymbol + NumTableSymbols - 1)) \X (1..MaxFreq)] :
                   l \in 1..NumTableSymbols} :
     \A i, j \in 1..Len(fm) : fm[i][1] = fm[j][1] => i = j}

TableInputs == {[op |-> "args", freq |-> fm] : fm \in FrequencyTables}

\* root = _build_tree(freq); code_map = _generate_codes(root), as build derives them
GenerateCodes ==
  /\ tbl.op = "args"
  /\ \E root \in {build_tree(tbl.freq)} :
        tbl' = [op |-> "codes", freq |-> tbl.freq, root |-> root,
                code_map |-> generate_codes(root, <<>>, <<>>)]
  /\ UNCHANGED <<hvars, tvars, pvars, lvars, cvars, nvars>>

\* HuffmanCodec().decompress(bits, freq)
DecompressBits(bits) ==
  /\ tbl.op = "args"
  /\ \E r \in {decompress(NewHuffmanCodec, bits, Some(tbl.freq))} :
        tbl' = [op |-> "decompress", freq |-> tbl.freq, bits |-> bits,
                err |-> r.err, bytes |-> r.bytes, self |-> r.self]
  /\ UNCHANGED <<hvars, tvars, pvars, lvars, cvars, nvars>>

-----------------------------------------------------------------------------
(* A padding round trip: pad, then unpad with the original bit length      *)

Idle == [op |-> "none"]

\* block sizes handed to the padder: small ones, the largest PKCS#7 can express,
\* the first it cannot, and sizes that are not positive multiples of 8
BlockSizes ==
  {8 * b : b \in 1..MaxBlockBytes}
    \cup {8 * MaxPkcs7BlockBytes, 8 * (MaxPkcs7BlockBytes + 1)}
    \cup {-8, 0, 4, 12}

PadInputs ==
  {[op |-> "args", S |-> S, bs |-> bs] : S \in SeqsUpTo(Bits, MaxPadBits), bs \in BlockSizes}

\* padded = pkcs7_pad_bit_string(S, bs)
Pad ==
  /\ padv.op = "args"
  /\ padv' = [op |-> "pad", S |-> padv.S, bs |-> padv.bs,
              padded |-> pkcs7_pad_bit_string(padv.S, padv.bs)]
  /\ UNCHANGED <<fvars, hvars, tvars, lvars, cvars, nvars>>

\* pkcs7_unpad_bit_string(padded, bs, len(S)) of what pad returned
Unpad ==
  /\ padv.op = "pad"
  /\ padv.padded.err = "none"
  /\ padv' = [op |-> "unpad", S |-> padv.S, bs |-> padv.bs, padded |-> padv.padded,
              unpadded |-> pkcs7_unpad_bit_string(padv.padded.val, padv.bs,
                                                  Some(Len(padv.S)))]
  /\ UNCHANGED <<fvars, hvars, tvars, lvars, cvars, nvars>>

\* what a receiver may hand to the unpadder: whole bytes of the values
\* 0 .. MaxBlockBytes + 1, or these and one bit more; a block size; the original
\* bit length, or none
UnpadInputs ==
  {[op |-> "unpad_args", X |-> bytes_to_bit_string(D) \o extra, bs |-> bs, orig |-> orig] :
     D \in SeqsUpTo(0..(MaxBlockBytes + 1), MaxUnpadBytes), extra \in {<<>>, <<1>>},
     bs \in BlockSizes,
     orig \in {None} \cup {Some(l) : l \in 0..MaxPadBits}}

\* pkcs7_unpad_bit_string(X, bs, orig) of whatever was received
UnpadReceived ==
  /\ padv.op = "unpad_args"
  /\ padv' = [op |-> "unpad_received", X |-> padv.X, bs |-> padv.bs, orig |-> padv.orig,
              unpadded |-> pkcs7_unpad_bit_string(padv.X, padv.bs, padv.orig)]
  /\ UNCHANGED <<fvars, hvars, tvars, lvars, cvars, nvars>>

-----------------------------------------------------------------------------
(* A linear code: construction, parameter hand-over, one block in transit  *)

CodeInputs == {[op |-> "args", n |-> n, k |-> k] : n \in 1..MaxN, k \in 1..MaxN}

\* code = LinearCodec(n, k)
Construct ==
  /\ code.op = "args"
  /\ LET r == LinearCodec(code.n, code.k)
     IN code' = [op |-> "new", n |-> code.n, k |-> code.k,
                 err |-> r.err, msg |-> r.msg, self |-> r.self]
  /\ UNCHANGED <<fvars, hvars, tvars, pvars, cvars, nvars, rx, word>>

Constructed == code.op = "new" /\ code.err = "none"

\* rx = LinearCodec.from_parameters(code.get_parameters()); the parameters are
\* handed over before a block is in transit
FromParameters ==
  /\ Constructed
  /\ rx = Idle
  /\ word = Idle
  /\ LET r == from_parameters(get_parameters(code.self[1]))
     IN rx' = [op |-> "new", err |-> r.err, msg |-> r.msg, self |-> r.self]
  /\ UNCHANGED <<fvars, hvars, tvars, pvars, cvars, nvars, code, word>>

\* codeword = code.encode(M), handed to the channel
Encode(M) ==
  /\ Constructed
  /\ word = Idle
  /\ LET r == encode(code.self[1], M)
     IN word' = [op |-> "sent", message |-> M, encoded |-> r,
                 received |-> r.val, flipped |-> {}, dec |-> Idle, rxdec |-> Idle]
  /\ UNCHANGED <<fvars, hvars, tvars, pvars, cvars, nvars, code, rx>>

\* the channel flips the bit at (0-based) position pos of the block in transit
Flip(pos) ==
  /\ word.op = "sent"
  /\ word.encoded.err = "none"
  /\ pos \notin word.flipped
  /\ Cardinality(word.flipped) < MaxFlips
  /\ word' = [word EXCEPT !.received = FlipAll(word.received, {pos}),
                          !.flipped = word.flipped \cup {pos},
                          !.dec = Idle, !.rxdec = Idle]
  /\ UNCHANGED <<fvars, hvars, tvars, pvars, cvars, nvars, code, rx>>

\* code.decode(received)
Decode ==
  /\ word.op = "sent"
  /\ word.encoded.err = "none"
  /\ word.dec = Idle
  /\ word' = [word EXCEPT !.dec = [op |-> "decode"] @@ decode(code.self[1], word.received)]
  /\ UNCHANGED <<fvars, hvars, tvars, pvars, cvars, nvars, code, rx>>

\* rx.decode(received)
RxDecode ==
  /\ word.op = "sent"
  /\ word.encoded.err = "none"
  /\ word.rxdec = Idle
  /\ rx # Idle
  /\ rx.err = "none"
  /\ word' = [word EXCEPT !.rxdec = [op |-> "decode"] @@ decode(rx.self[1], word.received)]
  /\ UNCHANGED <<fvars, hvars, tvars, pvars, cvars, nvars, code, rx>>

\* code.decode(R) of a word R of any length, from wherever
DecodeWord(R) ==
  /\ Constructed
  /\ word = Idle
  /\ word' = [op |-> "decoded", received |-> R, dec |-> decode(code.self[1], R)]
  /\ UNCHANGED <<fvars, hvars, tvars, pvars, cvars, nvars, code, rx>>

-----------------------------------------------------------------------------
(* The channel simulator                                                   *)

ChanInputs ==
  {[op |-> "args", S |-> S, pct |-> pct] :
     S \in SeqsUpTo(Bits, MaxChanBits), pct \in (-MaxOver)..(100 + MaxOver)}

\* inject_bit_errors(S, pct), with whatever sample random.sample draws
Inject ==
  /\ chan.op = "args"
  /\ \E r \in inject_bit_errors(chan.S, chan.pct) :
       chan' = [op |-> "inject", S |-> chan.S, pct |-> chan.pct,
                err |-> r.err, bits |-> r.bits, count |-> r.count]
  /\ UNCHANGED <<fvars, hvars, tvars, pvars, lvars, nvars>>

-----------------------------------------------------------------------------
(* utils.py: base64 framing; the JSON form of the frequency map            *)

\* the sign '=' that fills a base64 string up to a multiple of 4 characters;
\* every other character is the index 0..63 of its place in the base64 alphabet
B64Fill == 64

\* to_base64(data_bytes): 6 bits a character, zero-filled, then '=' signs
to_base64(data_bytes) ==
  LET bits == bytes_to_bit_string(data_bytes)
      nchars == (Len(bits) + 5) \div 6
      filled == bits \o [i \in 1..(6 * nchars - Len(bits)) |-> 0]
      total == 4 * ((nchars + 3) \div 4)
  IN [c \in 1..total |->
        IF c <= nchars
        THEN filled[6*c - 5] * 32 + filled[6*c - 4] * 16 + filled[6*c - 3] * 8
               + filled[6*c - 2] * 4 + filled[6*c - 1] * 2 + filled[6*c]
        ELSE B64Fill]

\* from_base64(b64_string): the whole bytes of the characters' bits
from_base64(b64_string) ==
  LET chars == SelectSeq(b64_string, LAMBDA c : c # B64Fill)
      bits == [i \in 1..(6 * Len(chars)) |->
                 (chars[((i - 1) \div 6) + 1] \div (2 ^ (5 - ((i - 1) % 6)))) % 2]
  IN bit_string_to_bytes(SubSeq(bits, 1, 8 * (Len(bits) \div 8)))

\* a JSON object key of a byte value: its decimal digits
KeyOf(b) ==
  IF b < 10 THEN <<b>>
  ELSE IF b < 100 THEN <<b \div 10, b % 10>>
  ELSE <<b \div 100, (b \div 10) % 10, b % 10>>

\* int(k) of a key of decimal digits
RECURSIVE IntOf(_)
IntOf(key) ==
  IF key = <<>> THEN 0 ELSE 10 * IntOf(SubSeq(key, 1, Len(key) - 1)) + key[Len(key)]

\* the frequency map as requests.post(json=...) writes it: keys become strings
JsonOf(freq_map) == [i \in 1..Len(freq_map) |-> <<KeyOf(freq_map[i][1]), freq_map[i][2]>>]

\* {int(k): v for k, v in freq_map_str.items()}
FreqOfJson(freq_map_str) ==
  [i \in 1..Len(freq_map_str) |-> <<IntOf(freq_map_str[i][1]), freq_map_str[i][2]>>]

\* calculate_sha256(data): the hash is taken to be free of collisions
calculate_sha256(data) == <<"sha256", data>>

-----------------------------------------------------------------------------
(* client.py and server.py                                                 *)

N_HAMMING == 128

K_HAMMING == 120

\* the methods the class HuffmanCodec defines
HuffmanCodecMethods ==
  {"__init__", "build", "compress", "decompress", "_build_tree", "_generate_codes"}

\* HuffmanCodec().<name>(data): a name the class does not define raises
\* AttributeError
CallCompress(name, data) ==
  IF name \notin HuffmanCodecMethods
  THEN [self |-> NewHuffmanCodec, err |-> "AttributeError", bits |-> <<>>, freq |-> <<>>]
  ELSE compress(NewHuffmanCodec, data)

\* HuffmanCodec().<name>(bit_string, frequency_map)
CallDecompress(name, bit_string, frequency_map) ==
  IF name \notin HuffmanCodecMethods
  THEN [self |-> NewHuffmanCodec, err |-> "AttributeError", bytes |-> <<>>]
  ELSE decompress(NewHuffmanCodec, bit_string, Some(frequency_map))

\* the encoding loop of process_and_send over the first i chunks of k bits
RECURSIVE EncodeChunks(_, _, _)
EncodeChunks(linear_coder, padded_bits, i) ==
  IF i = 0 THEN <<>>
  ELSE EncodeChunks(linear_coder, padded_bits, i - 1)
         \o encode(linear_coder, SubSeq(padded_bits, (i - 1) * linear_coder.k + 1,
                                        i * linear_coder.k)).val

\* the number of chunks range(0, len, step) visits
Chunks(len, step) == (len + step - 1) \div step

\* the JSON payload process_and_send posts
Payload(data, huffman_freq_map, original_huffman_bit_length, padded_bits, linear_coder, errored_bits, num_errors_injected) ==
  [encoded_message |-> to_base64(bit_string_to_bytes(errored_bits)),
   parameters |-> [huffman_freq_map |-> JsonOf(huffman_freq_map),
                   original_huffman_bit_length |-> original_huffman_bit_length,
                   padded_length |-> Len(padded_bits),
                   linear_codec_params |-> get_parameters(linear_coder)],
   errors |-> num_errors_injected,
   SHA256 |-> calculate_sha256(data)]

ClientEnds(outcome) == [outcome |-> outcome, payload |-> None, flips |-> {}]

\* process_and_send(filepath, error_rate, server_url) up to the post: the set of
\* the ways it can end, one for every sample the channel simulator can draw
process_and_send(isfile, is_image, original_image_data, error_rate) ==
  IF ~isfile THEN {ClientEnds("file not found")}
  ELSE IF ~is_image THEN {ClientEnds("not an image")}
  ELSE IF original_image_data = <<>> THEN {ClientEnds("empty file")}
  ELSE Bind(CallCompress("compress_to_bit_string", original_image_data), LAMBDA c :
    IF c.err # "none" THEN {ClientEnds(c.err)}
    ELSE IF c.bits = <<>> THEN {ClientEnds("empty compression")}
    ELSE Bind(pkcs7_pad_bit_string(c.bits, K_HAMMING), LAMBDA padded :
      IF padded.err # "none" THEN {ClientEnds(padded.err)}
      ELSE IF Len(padded.val) % K_HAMMING # 0 THEN {ClientEnds("padding failed")}
      ELSE Bind(LinearCodec(N_HAMMING, K_HAMMING), LAMBDA lc :
        IF lc.err # "none" THEN {ClientEnds(lc.err)}
        ELSE Bind(EncodeChunks(lc.self[1], padded.val, Chunks(Len(padded.val), K_HAMMING)),
                  LAMBDA linearly_encoded_bits :
          {IF e.err # "none" THEN ClientEnds(e.err)
           ELSE [outcome |-> "posted", flips |-> DiffPositions(linearly_encoded_bits, e.bits),
                 payload |-> Some(Payload(original_image_data, c.freq, Len(c.bits),
                                          padded.val, lc.self[1], e.bits, e.count))] :
             e \in inject_bit_errors(linearly_encoded_bits, error_rate)}))))

\* the decoding loop of process_request over the first i blocks of n bits
RECURSIVE DecodeBlocks(_, _, _)
DecodeBlocks(linear_decoder, errored_bits, i) ==
  IF i = 0 THEN [bits |-> <<>>, corrected |-> 0]
  ELSE Bind(DecodeBlocks(linear_decoder, errored_bits, i - 1), LAMBDA acc :
         Bind(decode(linear_decoder, SubSeq(errored_bits, (i - 1) * linear_decoder.n + 1,
                                            i * linear_decoder.n)), LAMBDA d :
           [bits |-> acc.bits \o d.val[1], corrected |-> acc.corrected + d.val[2]]))

Response(http, status, message) ==
  [code |-> http, status |-> status, message |-> message, decoded_image |-> <<>>,
   sha256_match |-> FALSE, errors_corrected |-> 0]

\* process_request(): the response to the JSON payload data
process_request(data) ==
  IF data.encoded_message = <<>> THEN Response(400, "error", "missing required fields")
  ELSE IF data.parameters.huffman_freq_map = <<>>
  THEN Response(400, "error", "missing parameters")
  ELSE Bind(from_parameters(data.parameters.linear_codec_params), LAMBDA ld :
    IF ld.err # "none" THEN Response(400, "error", "invalid linear codec parameters")
    ELSE Bind(bytes_to_bit_string(from_base64(data.encoded_message)), LAMBDA errored_bits :
      Bind(DecodeBlocks(ld.self[1], errored_bits, Len(errored_bits) \div ld.self[1].n),
           LAMBDA dec :
        IF Len(dec.bits) # data.parameters.padded_length
        THEN Response(500, "error", "length mismatch after linear decoding")
        ELSE Bind(pkcs7_unpad_bit_string(dec.bits, ld.self[1].k,
                    Some(data.parameters.original_huffman_bit_length)), LAMBDA unpadded :
          IF unpadded.err # "none" THEN Response(400, "error", "PKCS#7 unpadding failed")
          ELSE IF Len(unpadded.val) # data.parameters.original_huffman_bit_length
          THEN Response(500, "error", "length after unpadding inconsistent")
          ELSE Bind(CallDecompress("decompress_from_bit_string", unpadded.val,
                                   FreqOfJson(data.parameters.huffman_freq_map)), LAMBDA h :
            IF h.err # "none"
            THEN Response(500, "error", "Huffman decompression failed")
            ELSE [code |-> 200, status |-> "success", message |-> "",
                  decoded_image |-> from_base64(to_base64(h.bytes)),
                  sha256_match |-> (calculate_sha256(h.bytes) = data.SHA256),
                  errors_corrected |-> dec.corrected])))))

\* what a sender that follows the pipeline posts for data over an (n,k) code when
\* the channel flips the (0-based) positions flips of the encoded bits
SenderPayload(data, n, k, flips) ==
  Bind(compress(NewHuffmanCodec, data), LAMBDA c :
    Bind(pkcs7_pad_bit_string(c.bits, k).val, LAMBDA padded_bits :
      Bind(LinearCodec(n, k).self[1], LAMBDA linear_coder :
        Payload(data, c.freq, Len(c.bits), padded_bits, linear_coder,
                FlipAll(EncodeChunks(linear_coder, padded_bits, Chunks(Len(padded_bits), k)),
                        flips),
                Cardinality(flips)))))

\* the length of what such a sender encodes
EncodedLen(data, n, k) ==
  n * Chunks(Len(pkcs7_pad_bit_string(compress(NewHuffmanCodec, data).bits, k).val), k)

\* the code of the requests: k = 8 * PipeBlockBytes, n = k + PipeParity
PipeK == 8 * PipeBlockBytes

PipeN == PipeK + PipeParity

\* the flip patterns of the requests: no flip, one flip, and two flips
FlipSets(len) ==
  {{}} \cup {{a} : a \in 0..(len - 1)}
       \cup {{a, b} : a \in {0, 1, PipeN - 1}, b \in {PipeN - 1, PipeN, len - 1}}

ClientInputs ==
  {[op |-> "args", isfile |-> f, is_image |-> i, data |-> B, error_rate |-> e] :
     f \in BOOLEAN, i \in BOOLEAN, B \in ReuseBuffers, e \in {0, 1, 50}}

ServerInputs(n, k) ==
  {[op |-> "request", data |-> B, flips |-> fl, payload |-> SenderPayload(B, n, k, fl)] :
     B \in ReuseBuffers \ {<<>>}, fl \in FlipSets(EncodedLen(<<FirstSymbol>>, n, k))}

\* python client.py <file> --errors <rate>
ProcessAndSend ==
  /\ client.op = "args"
  /\ \E r \in process_and_send(client.isfile, client.is_image, client.data,
                               client.error_rate) :
       /\ client' = [op |-> "done", isfile |-> client.isfile, is_image |-> client.is_image,
                     data |-> client.data, error_rate |-> client.error_rate,
                     outcome |-> r.outcome]
       /\ server' = IF r.outcome = "posted"
                    THEN [op |-> "request", data |-> client.data, flips |-> r.flips,
                          payload |-> r.payload[1]]
                    ELSE server
  /\ UNCHANGED <<fvars, hvars, tvars, pvars, lvars, cvars>>

\* POST / on the server
ProcessRequest ==
  /\ server.op = "request"
  /\ server' = [op |-> "done", data |-> server.data, flips |-> server.flips,
                payload |-> server.payload, response |-> process_request(server.payload)]
  /\ UNCHANGED <<fvars, hvars, tvars, pvars, lvars, cvars, client>>

-----------------------------------------------------------------------------
(* Specifications                                                          *)

\* the Huffman test suite
InitTest ==
  /\ huff = NewHuffmanCodec /\ hret = NoCall /\ tbl = Idle
  /\ padv = Idle /\ code = Idle /\ rx = Idle /\ word = Idle /\ chan = Idle
  /\ client = Idle /\ server = Idle
  /\ test \in TestInputs

NextTest == RunTest

SpecTest == InitTest /\ [][NextTest]_vars

\* frequency tables and bit sequences from outside
InitTable ==
  /\ huff = NewHuffmanCodec /\ hret = NoCall /\ test = NoTest
  /\ padv = Idle /\ code = Idle /\ rx = Idle /\ word = Idle /\ chan = Idle
  /\ client = Idle /\ server = Idle
  /\ tbl \in TableInputs

NextTable ==
  \/ GenerateCodes
  \/ \E bits \in SeqsUpTo(Bits, MaxTableBits) : DecompressBits(bits)

SpecTable == InitTable /\ [][NextTable]_vars

\* a HuffmanCodec instance under repeated calls
InitHuffman ==
  /\ huff = NewHuffmanCodec /\ hret = NoCall /\ test = NoTest /\ tbl = Idle
  /\ padv = Idle /\ code = Idle /\ rx = Idle /\ word = Idle /\ chan = Idle
  /\ client = Idle /\ server = Idle

NextHuffman ==
  \/ \E B \in ReuseBuffers : Compress(B)
  \/ \E B \in ReuseBuffers, withTable \in BOOLEAN : Decompress(B, withTable)

SpecHuffman == InitHuffman /\ [][NextHuffman]_vars

\* padding round trips
InitPad ==
  /\ huff = NewHuffmanCodec /\ hret = NoCall /\ test = NoTest /\ tbl = Idle
  /\ code = Idle /\ rx = Idle /\ word = Idle /\ chan = Idle
  /\ client = Idle /\ server = Idle
  /\ padv \in PadInputs \cup UnpadInputs

NextPad == Pad \/ Unpad \/ UnpadReceived

SpecPad == InitPad /\ [][NextPad]_vars

\* linear codes
InitLinear ==
  /\ huff = NewHuffmanCodec /\ hret = NoCall /\ test = NoTest /\ tbl = Idle
  /\ padv = Idle /\ chan = Idle
  /\ client = Idle /\ server = Idle
  /\ rx = Idle /\ word = Idle
  /\ code \in CodeInputs

NextLinear ==
  \/ Construct
  \/ FromParameters
  \/ word = Idle /\ \E M \in [1..code.k -> Bits] : Encode(M)
  \/ \E pos \in 0..(code.n - 1) : Flip(pos)
  \/ Decode
  \/ RxDecode
  \/ word = Idle /\ \E R \in SeqsUpTo(Bits, MaxN + 1) : DecodeWord(R)

SpecLinear == InitLinear /\ [][NextLinear]_vars

\* the channel simulator
InitChannel ==
  /\ huff = NewHuffmanCodec /\ hret = NoCall /\ test = NoTest /\ tbl = Idle
  /\ padv = Idle /\ code = Idle /\ rx = Idle /\ word = Idle
  /\ client = Idle /\ server = Idle
  /\ chan \in ChanInputs

NextChannel == Inject

SpecChannel == InitChannel /\ [][NextChannel]_vars

\* the client and the server
InitPipeline ==
  /\ huff = NewHuffmanCodec /\ hret = NoCall /\ test = NoTest /\ tbl = Idle
  /\ padv = Idle /\ code = Idle /\ rx = Idle /\ word = Idle /\ chan = Idle
  /\ \/ client \in ClientInputs /\ server = Idle
     \/ client = Idle /\ server \in ServerInputs(PipeN, PipeK)

NextPipeline == ProcessAndSend \/ ProcessRequest

SpecPipeline == InitPipeline /\ [][NextPipeline]_vars

-----------------------------------------------------------------------------
(* Properties                                                              *)

\* C1: for every non-empty byte buffer B, a fresh codec's compress followed by a
\* fresh codec's decompress of the returned bits with the returned frequency
\* table yields exactly B
C1_RoundTrip ==
  (test.ran /\ test.data # <<>>) =>
     /\ test.err = "none"
     /\ test.decoded
     /\ test.out = test.data

\* a buffer of three distinct byte values went through the round trip
C1_Witness ==
  /\ test.ran
  /\ test.decoded
  /\ Len(test.data) >= 3
  /\ Cardinality({test.data[i] : i \in 1..Len(test.data)}) = 3
  /\ test.out = test.data

\* occurrences of byte value b in buffer B
Occurrences(B, b) == Cardinality({i \in 1..Len(B) : B[i] = b})

\* the frequency table freq maps exactly the byte values of B to their counts
IsCountOf(freq, B) ==
  /\ {freq[i][1] : i \in 1..Len(freq)} = {B[i] : i \in 1..Len(B)}
  /\ \A i \in 1..Len(freq) : freq[i][2] = Occurrences(B, freq[i][1])
  /\ \A i, j \in 1..Len(freq) : freq[i][1] = freq[j][1] => i = j

\* C2: every compress(B), whatever was called on the instance before, returns
\* the table of B's byte counts, and table and bit sequence are both empty
\* exactly when B is empty
C2_FreshTable ==
  hret.op = "compress" =>
     /\ hret.err = "none"
     /\ IsCountOf(hret.freq, hret.data)
     /\ (hret.freq = <<>>) <=> (hret.data = <<>>)
     /\ (hret.bits = <<>>) <=> (hret.data = <<>>)

PositiveMultipleOf8(bs) == bs > 0 /\ bs % 8 = 0

\* C3 as stated: for every bit sequence S and every block size bs that is a
\* positive multiple of 8, pad succeeds and unpad of its result with bs and len(S)
\* returns exactly S
C3_AnyBlockSize ==
  (padv.op \in {"pad", "unpad"} /\ PositiveMultipleOf8(padv.bs)) =>
     /\ padv.padded.err = "none"
     /\ padv.op = "unpad" => (padv.unpadded.err = "none" /\ padv.unpadded.val = padv.S)

\* C3 amended: the same for every block size that is a positive multiple of 8 of
\* at most 255 bytes (2040 bits); for a larger one pad fails with ValueError
C3_RoundTrip ==
  (padv.op \in {"pad", "unpad"} /\ PositiveMultipleOf8(padv.bs)) =>
     IF padv.bs <= 8 * MaxPkcs7BlockBytes
     THEN /\ padv.padded.err = "none"
          /\ padv.op = "unpad" => (padv.unpadded.err = "none" /\ padv.unpadded.val = padv.S)
     ELSE padv.padded.err = "ValueError"

\* a bit sequence that ends inside its second byte came back from a round trip
\* with 2-byte blocks
C3_Witness ==
  /\ padv.op = "unpad"
  /\ padv.bs = 16
  /\ Len(padv.S) > 8 /\ Len(padv.S) % 8 # 0
  /\ padv.unpadded.err = "none"
  /\ padv.unpadded.val = padv.S

\* C4: for every k-bit message M of a constructed (n,k) codec, encode(M) is an
\* n-bit word whose first k bits are M, and decode(encode(M)) returns (M, 0)
C4_ZeroErrors ==
  word.op = "sent" =>
     /\ word.encoded.err = "none"
     /\ Len(word.encoded.val) = code.n
     /\ SubSeq(word.encoded.val, 1, code.k) = word.message
     /\ (word.flipped = {} /\ word.dec # Idle) =>
           (word.dec.err = "none" /\ word.dec.val = <<word.message, 0>>)

\* a non-zero message of the (7,4) code was encoded and decoded untouched
C4_Witness ==
  /\ word.op = "sent"
  /\ code.n = 7 /\ code.k = 4
  /\ \E i \in 1..4 : word.message[i] = 1
  /\ word.flipped = {}
  /\ word.dec # Idle
  /\ word.dec.val = <<word.message, 0>>

\* C5: for every message M and every position p in [0,n), decoding encode(M)
\* with bit p flipped returns (M, 1), in the message part and in the parity part
C5_SingleFlip ==
  (word.op = "sent" /\ Cardinality(word.flipped) = 1 /\ word.dec # Idle) =>
     (word.dec.err = "none" /\ word.dec.val = <<word.message, 1>>)

\* a flip in the parity part of a (7,4) codeword was corrected
C5_Witness ==
  /\ word.op = "sent"
  /\ code.n = 7 /\ code.k = 4
  /\ \E pos \in 4..6 : word.flipped = {pos}
  /\ word.dec # Idle
  /\ word.dec.val = <<word.message, 1>>

\* C7: LinearCodec(n,k) fails with ValueError when k >= n, and for every pair
\* with k < n it succeeds, with G of shape k x n, H of shape (n-k) x n and a
\* syndrome table
C7_Construction ==
  code.op = "new" =>
     IF code.k >= code.n
     THEN code.err = "ValueError"
     ELSE /\ code.err = "none"
          /\ Len(code.self[1].G_matrix[1]) = code.k
          /\ \A r \in 1..code.k : Len(code.self[1].G_matrix[1][r]) = code.n
          /\ Len(code.self[1].H_matrix[1]) = code.n - code.k
          /\ \A r \in 1..(code.n - code.k) : Len(code.self[1].H_matrix[1][r]) = code.n

\* C8: the codec from_parameters(get_parameters(code)) has no generator matrix,
\* has the table that H gives, and decodes every word with at most one flipped
\* bit to the same (message, correctedCount) as the original codec
C8_ParameterRoundTrip ==
  rx # Idle =>
     /\ rx.err = "none"
     /\ rx.self[1].G_matrix = None
     /\ rx.self[1].H_matrix = code.self[1].H_matrix
     /\ rx.self[1].syndrome_table = code.self[1].syndrome_table
     /\ (word.op = "sent" /\ Cardinality(word.flipped) <= 1
           /\ word.dec # Idle /\ word.rxdec # Idle) => word.rxdec = word.dec

\* both codecs decoded a (7,4) codeword with a flipped message bit
C8_Witness ==
  /\ rx # Idle
  /\ word.op = "sent"
  /\ code.n = 7 /\ code.k = 4
  /\ \E pos \in 0..3 : word.flipped = {pos}
  /\ word.dec # Idle /\ word.rxdec # Idle
  /\ word.rxdec.val = <<word.message, 1>>

\* C9: inject_bit_errors fails with ValueError for every errorPercentage below 0
\* or above 100, whatever the bit sequence, and returns no flipped result
C9_RejectsOutOfRange ==
  (chan.op = "inject" /\ (chan.pct < 0 \/ chan.pct > 100)) =>
     (chan.err = "ValueError" /\ chan.bits = <<>>)

\* floor(len * pct / 100), raised to 1 when pct > 0, len > 0 and the floor is 0
ExpectedCount(len, pct) ==
  LET f == (len * pct) \div 100
  IN IF f = 0 /\ pct > 0 /\ len > 0 THEN 1 ELSE f

\* C10: for pct in [0,100], inject_bit_errors(S, pct) returns (S', count) with
\* len(S') = len(S), S' differing from S in exactly count positions, count as
\* ExpectedCount gives it, 0 <= count <= len(S); pct = 0 returns (S, 0) and
\* pct = 100 flips every bit
C10_InjectCount ==
  (chan.op = "inject" /\ chan.pct >= 0 /\ chan.pct <= 100) =>
     /\ chan.err = "none"
     /\ Len(chan.bits) = Len(chan.S)
     /\ \A i \in 1..Len(chan.bits) : chan.bits[i] \in Bits
     /\ Cardinality(DiffPositions(chan.S, chan.bits)) = chan.count
     /\ chan.count = ExpectedCount(Len(chan.S), chan.pct)
     /\ chan.count >= 0 /\ chan.count <= Len(chan.S)
     /\ chan.pct = 0 => (chan.bits = chan.S /\ chan.count = 0)
     /\ chan.pct = 100 => DiffPositions(chan.S, chan.bits) = 0..(Len(chan.S) - 1)

\* a percentage whose floor is 0 flipped exactly one bit of a 4-bit sequence
C10_Witness ==
  /\ chan.op = "inject"
  /\ chan.pct > 0 /\ Len(chan.S) * chan.pct < 100
  /\ Len(chan.S) = 4
  /\ chan.count = 1
  /\ Cardinality(DiffPositions(chan.S, chan.bits)) = 1

\* the blocks of n bits in which the channel flipped a bit
FlippedBlocks(flips, n) == {pos \div n : pos \in flips}

\* the channel flipped at most one bit in each block of n bits
AtMostOnePerBlock(flips, n) == Cardinality(FlippedBlocks(flips, n)) = Cardinality(flips)

\* C6: a byte buffer B that the client compresses, pads, encodes and sends
\* through a channel that flips at most one bit a block comes out of the
\* server's decoding, unpadding and decompression as B, and the corrected-error
\* count is the number of blocks in which a bit was flipped
C6_EndToEnd ==
  /\ (client.op = "done" /\ client.isfile /\ client.is_image /\ client.data # <<>>) =>
        client.outcome = "posted"
  /\ (server.op = "done"
        /\ AtMostOnePerBlock(server.flips, server.payload.parameters.linear_codec_params.n)) =>
        /\ server.response.status = "success"
        /\ server.response.decoded_image = server.data
        /\ server.response.sha256_match
        /\ server.response.errors_corrected =
             Cardinality(FlippedBlocks(server.flips,
                                       server.payload.parameters.linear_codec_params.n))

\* the sum mod 2 of the columns of H at the (0-based) positions of flips: the
\* syndrome of a codeword with these bits flipped
FlipSyndrome(H, flips) ==
  [r \in 1..Len(H) |-> Cardinality({pos \in flips : H[r][pos + 1] = 1}) % 2]

\* the (0-based) positions whose column of H is s
ColumnsEqual(H, s) == {pos \in 0..(Len(H[1]) - 1) : Column(H, pos + 1) = s}

\* C11 as stated: when two or more bits of encode(M) are flipped, decode flips
\* no bit and returns the first k bits of the received word with correctedCount 0
C11_PassThrough ==
  (word.op = "sent" /\ Cardinality(word.flipped) >= 2 /\ word.dec # Idle) =>
     /\ word.dec.err = "none"
     /\ word.dec.val = <<SubSeq(word.received, 1, code.k), 0>>

\* C11 amended: when two or more bits of encode(M) are flipped, decode does not
\* fail; it returns the first k bits of the received word with correctedCount 0
\* exactly when the sum of the flipped positions' columns of H is no column of H
\* (zero included), and when that sum is the column of position q it flips bit q
\* of the received word and returns its first k bits with correctedCount 1
C11_MultipleFlips ==
  (word.op = "sent" /\ Cardinality(word.flipped) >= 2 /\ word.dec # Idle) =>
     LET H == code.self[1].H_matrix[1]
         hits == ColumnsEqual(H, FlipSyndrome(H, word.flipped))
     IN /\ word.dec.err = "none"
        /\ IF hits = {}
           THEN word.dec.val = <<SubSeq(word.received, 1, code.k), 0>>
           ELSE \E q \in hits :
                  word.dec.val = <<SubSeq(FlipAll(word.received, {q}), 1, code.k), 1>>

\* two flipped bits of a (7,4) codeword were decoded as a single error, and the
\* message that came out is not the one that went in
C11_Witness ==
  /\ word.op = "sent"
  /\ code.n = 7 /\ code.k = 4
  /\ Cardinality(word.flipped) = 2
  /\ word.dec # Idle
  /\ word.dec.val[2] = 1
  /\ word.dec.val[1] # word.message

\* the value of the last whole byte of a bit sequence of at least 8 bits
TrailingByte(X) == ByteValue(SubSeq(X, Len(X) - 7, Len(X)))

\* C12 as stated: pkcs7_unpad_bit_string fails exactly when the block size is
\* not a positive multiple of 8, or the trailing byte p is 0, above the block
\* size in bytes or above the number of bytes, or the unpadded bit length is below
\* the original length; otherwise it strips p bytes and returns the first
\* original-length bits of the rest
C12_DocumentedCases ==
  (padv.op = "unpad_received" /\ padv.orig # None) =>
     LET X == padv.X
         nbytes == Len(X) \div 8
         p == TrailingByte(X)
         documented ==
           \/ ~PositiveMultipleOf8(padv.bs)
           \/ /\ nbytes >= 1
              /\ Len(X) % 8 = 0
              /\ \/ p = 0
                 \/ p > padv.bs \div 8
                 \/ p > nbytes
                 \/ 8 * (nbytes - p) < padv.orig[1]
     IN IF documented
        THEN padv.unpadded.err = "ValueError"
        ELSE /\ padv.unpadded.err = "none"
             /\ padv.unpadded.val = SubSeq(X, 1, padv.orig[1])

\* C12 amended: pkcs7_unpad_bit_string fails with ValueError, in this order, when
\* the input is not a whole number of bytes, when the block size is not a
\* positive multiple of 8, when the input is empty, when the trailing byte p is
\* 0 or above the block size in bytes, when p is above the number of bytes, and
\* when the unpadded bit length is below the original length; otherwise it strips
\* p bytes and returns the first original-length bits of the rest (all of the
\* rest when no original length is given)
C12_UnpadCases ==
  padv.op = "unpad_received" =>
     LET X == padv.X
         nbytes == Len(X) \div 8
         p == TrailingByte(X)
         r == padv.unpadded
         Fails(msg) == r.err = "ValueError" /\ r.msg = msg /\ r.val = <<>>
     IN IF Len(X) % 8 # 0 THEN Fails("input length must be a multiple of 8")
        ELSE IF ~PositiveMultipleOf8(padv.bs)
        THEN Fails("block size must be a positive multiple of 8")
        ELSE IF X = <<>> THEN Fails("cannot unpad empty data")
        ELSE IF p = 0 \/ p > padv.bs \div 8 THEN Fails("invalid padding value")
        ELSE IF p > nbytes THEN Fails("padding length exceeds data length")
        ELSE IF padv.orig # None /\ 8 * (nbytes - p) < padv.orig[1]
        THEN Fails("unpadded bit string shorter than original length")
        ELSE /\ r.err = "none"
             /\ r.val = SubSeq(X, 1, IF padv.orig = None THEN 8 * (nbytes - p)
                                     ELSE padv.orig[1])

\* two bytes that end in a pad byte of value 1 were unpadded against 2-byte
\* blocks to the first 5 bits of the first byte
C12_Witness ==
  /\ padv.op = "unpad_received"
  /\ Len(padv.X) = 16
  /\ TrailingByte(padv.X) = 1
  /\ padv.bs = 16
  /\ padv.orig = Some(5)
  /\ padv.unpadded.err = "none"
  /\ padv.unpadded.val = SubSeq(padv.X, 1, 5)

\* bit_string = the bits of S, zeros up to the byte boundary, then p bytes of
\* value p with p = bsB - (the number of bytes of S mod bsB)
IsPadded(bit_string, S, bsB) ==
  LET byteLength == (Len(S) + 7) \div 8
      p == bsB - (byteLength % bsB)
  IN /\ 1 <= p /\ p <= bsB
     /\ (byteLength % bsB = 0) => p = bsB
     /\ Len(bit_string) = 8 * (byteLength + p)
     /\ SubSeq(bit_string, 1, Len(S)) = S
     /\ \A i \in (Len(S) + 1)..(8 * byteLength) : bit_string[i] = 0
     /\ \A j \in (byteLength + 1)..(byteLength + p) :
           ByteValue(SubSeq(bit_string, 8 * (j - 1) + 1, 8 * j)) = p
     /\ Len(bit_string) > 0 /\ Len(bit_string) % (8 * bsB) = 0
     /\ Len(bit_string) > 8 * byteLength

\* C13 as stated: for every bit sequence and every block size that is a
\* positive multiple of 8, pkcs7_pad_bit_string returns the zero-filled
\* big-endian packing of the bits followed by p bytes of value p, p = bsB - (byte
\* length mod bsB), 1 <= p <= bsB, so the result is a positive multiple of the
\* block size and longer than the packed input
C13_AnyBlockSize ==
  (padv.op = "pad" /\ PositiveMultipleOf8(padv.bs)) =>
     /\ padv.padded.err = "none"
     /\ IsPadded(padv.padded.val, padv.S, padv.bs \div 8)

\* C13 amended: the same for every block size that is a positive multiple of 8
\* of at most 255 bytes (2040 bits); for a larger one the call fails with
\* ValueError and returns nothing
C13_PadFormat ==
  (padv.op = "pad" /\ PositiveMultipleOf8(padv.bs)) =>
     IF padv.bs <= 8 * MaxPkcs7BlockBytes
     THEN /\ padv.padded.err = "none"
          /\ IsPadded(padv.padded.val, padv.S, padv.bs \div 8)
     ELSE padv.padded.err = "ValueError" /\ padv.padded.val = <<>>

\* a bit sequence that fills two bytes but for its zero-filled last bits was
\* padded to 2-byte blocks with a whole block of two bytes of value 2
C13_Witness ==
  /\ padv.op = "pad"
  /\ padv.bs = 16
  /\ Len(padv.S) = 9
  /\ padv.padded.err = "none"
  /\ Len(padv.padded.val) = 32
  /\ ByteValue(SubSeq(padv.padded.val, 25, 32)) = 2

\* a is a prefix of b (a = b included)
IsPrefix(a, b) == Len(a) <= Len(b) /\ SubSeq(b, 1, Len(a)) = a

\* C14: for every non-empty frequency table the code map derived from the built
\* tree gives every symbol of the table a codeword of at least one bit, one bit
\* for the symbol of a single-symbol table, and no symbol's codeword is a prefix
\* of another symbol's
C14_PrefixFree ==
  tbl.op = "codes" =>
     LET symbols == {tbl.freq[i][1] : i \in 1..Len(tbl.freq)}
     IN /\ DOMAIN tbl.code_map = symbols
        /\ \A a \in symbols : Len(tbl.code_map[a]) >= 1
        /\ \A a \in symbols : \A i \in 1..Len(tbl.code_map[a]) : tbl.code_map[a][i] \in Bits
        /\ Len(tbl.freq) = 1 => \A a \in symbols : Len(tbl.code_map[a]) = 1
        /\ \A a, b \in symbols : a # b => ~IsPrefix(tbl.code_map[a], tbl.code_map[b])

\* the codes of a table of three symbols were derived: one of one bit, two of
\* two bits
C14_Witness ==
  /\ tbl.op = "codes"
  /\ Len(tbl.freq) = 3
  /\ {Len(tbl.code_map[a]) : a \in DOMAIN tbl.code_map} = {1, 2}

\* C15: for every non-empty frequency table and every bit sequence, decompress
\* returns a byte sequence of the table's symbols and does not raise
C15_NeverRaises ==
  tbl.op = "decompress" =>
     /\ tbl.err = "none"
     /\ \A i \in 1..Len(tbl.bytes) : \E j \in 1..Len(tbl.freq) : tbl.bytes[i] = tbl.freq[j][1]

\* H * received mod 2, row by row
SyndromeOf(H, received) ==
  [r \in 1..Len(H) |->
     Cardinality({j \in 1..Len(received) : H[r][j] = 1 /\ received[j] = 1}) % 2]

\* the table of H: every non-zero column of H, mapped to the first (0-based)
\* position that has it
TableOf(H) ==
  LET n == Len(H[1])
      cols == {Column(H, j) : j \in 1..n} \ {[r \in 1..Len(H) |-> 0]}
  IN [s \in cols |-> CHOOSE pos \in 0..(n - 1) :
                        /\ Column(H, pos + 1) = s
                        /\ \A q \in 0..(pos - 1) : Column(H, q + 1) # s]

\* C16: decode of a word whose length is not n fails with ValueError; for an
\* n-bit word, with syndrome = H * received mod 2 and the table built from the
\* unit-error vectors (first position wins), it returns (first k bits, 0) for a
\* zero syndrome, (first k bits after the flip of the tabled position, 1) for a
\* non-zero syndrome in the table, and (first k bits, 0) for one that is not
C16_DecodeCases ==
  word.op = "decoded" =>
     LET self == code.self[1]
         H == self.H_matrix[1]
         R == word.received
         syndrome == SyndromeOf(H, R)
     IN /\ self.syndrome_table = TableOf(H)
        /\ IF Len(R) # code.n
           THEN word.dec.err = "ValueError" /\ word.dec.val = <<>>
           ELSE /\ word.dec.err = "none"
                /\ word.dec.val =
                     IF \A r \in 1..Len(syndrome) : syndrome[r] = 0
                     THEN <<SubSeq(R, 1, code.k), 0>>
                     ELSE IF syndrome \in DOMAIN TableOf(H)
                     THEN <<SubSeq(FlipAll(R, {TableOf(H)[syndrome]}), 1, code.k), 1>>
                     ELSE <<SubSeq(R, 1, code.k), 0>>

\* a word of the (6,3) code with a syndrome that is in the table was decoded
\* with one flip in its message part
C16_Witness ==
  /\ word.op = "decoded"
  /\ code.n = 6 /\ code.k = 3
  /\ Len(word.received) = 6
  /\ word.dec.err = "none"
  /\ word.dec.val[2] = 1
  /\ word.dec.val[1] # SubSeq(word.received, 1, 3)

\* i is a power of two below 2^p: its p-bit representation is a unit vector
IsUnitVector(i, p) == \E j \in 0..(p - 1) : i = 2 ^ j

\* the c-th integer of 1 .. 2^p - 1, in ascending order, that is no unit vector
Survivor(c, p) ==
  CHOOSE i \in 1..(2 ^ p - 1) :
    /\ ~IsUnitVector(i, p)
    /\ Cardinality({m \in 1..i : ~IsUnitVector(m, p)}) = c

\* binary digit r of i, of p digits, the most significant being digit 1
Digit(i, r, p) == (i \div (2 ^ (p - r))) % 2

\* C17: a constructed (n,k) codec, p = n - k, has H = [P | I_p] and
\* G = [I_k | P^T], column c of P being the p binary digits of the c-th integer
\* of 1 .. 2^p - 1 that is no unit vector; the matrices are a function of (n,k)
\* alone, so two instances of one (n,k) have the same; and H * G^T = 0 mod 2
C17_Matrices ==
  (code.op = "new" /\ code.err = "none") =>
     LET n == code.n
         k == code.k
         p == n - k
         G == code.self[1].G_matrix[1]
         H == code.self[1].H_matrix[1]
     IN /\ code.self[1].parity_bits = p
        /\ H = [r \in 1..p |-> [c \in 1..n |->
                  IF c <= k THEN Digit(Survivor(c, p), r, p)
                  ELSE IF c - k = r THEN 1 ELSE 0]]
        /\ G = [m \in 1..k |-> [c \in 1..n |->
                  IF c <= k THEN (IF c = m THEN 1 ELSE 0)
                  ELSE Digit(Survivor(m, p), c - k, p)]]
        /\ \A r \in 1..p : \A m \in 1..k :
              Cardinality({j \in 1..n : H[r][j] = 1 /\ G[m][j] = 1}) % 2 = 0

\* the (7,4) code was constructed: the columns of P are 3, 5, 6 and 7
C17_Witness ==
  /\ code.op = "new"
  /\ code.err = "none"
  /\ code.n = 7 /\ code.k = 4
  /\ code.self[1].H_matrix[1] = << <<0, 1, 1, 1, 1, 0, 0>>,
                                   <<1, 0, 1, 1, 0, 1, 0>>,
                                   <<1, 1, 0, 1, 0, 0, 1>> >>

\* the tree and the code map of a HuffmanCodec are the ones its frequency table gives
Consistent(self) ==
  /\ self.root = build_tree(self.frequency_map)
  /\ self.code_map = generate_codes(self.root, <<>>, <<>>)

\* C18: no call overwrites a cached structure: a step leaves G, H and the
\* syndrome table of a constructed LinearCodec as they are, and it leaves the
\* tree, the code map and the frequency table of a HuffmanCodec that has built
\* them as they are and consistent with one another
C18_CachesImmutable ==
  [][/\ code.op = "new" => code'.self = code.self
     /\ (huff.root # None /\ huff.code_map # <<>>) =>
           /\ huff'.root = huff.root
           /\ huff'.code_map = huff.code_map
           /\ huff'.frequency_map = huff.frequency_map
           /\ Consistent(huff')]_vars

====
